---- MODULE Spec2Model ----
(***************************************************************************)
(* Model of app.py, the Streamlit product search page.                     *)
(*                                                                         *)
(* One script run of app.py is one action.  The session state              *)
(* (st.session_state) and the uploaded file are the variables; the         *)
(* DataFrame df is computed from the file by every run.                    *)
(*                                                                         *)
(* Text is a sequence of one-character strings.  A Hangul character is     *)
(* written by its code point ("U+C9C4"); the Korean literals of the source *)
(* are written in ASCII:                                                   *)
(*   mode "바코드" -> "barcode",   mode "제품명" -> "name"                 *)
(*   column 바코드 -> barcode, 제품명 -> name, 입수 -> qty,                *)
(*   출고가 -> price, 보관조건 -> storage, 정규화_바코드 -> norm_barcode   *)
(***************************************************************************)
EXTENDS Integers, Sequences, FiniteSets, TLC

\* ------------------------------------------------------------------------
\* Bounds of the model
\* ------------------------------------------------------------------------
MaxQueryLen == 3
MaxRecords == 2
MaxLedgerRecords == 22
MaxTicks == 1

\* ------------------------------------------------------------------------
\* Program constants
\* ------------------------------------------------------------------------
HistoryCap == 20
MinNameLen == 2

\* ------------------------------------------------------------------------
\* Characters and text
\* ------------------------------------------------------------------------
Digits == {"0", "1", "2", "3", "4", "5", "6", "7", "8", "9"}

Whitespace == {" ", "\t", "\n", "\r"}

\* Characters of the model in code point order (str comparison of Python).
CodeOrder ==
  << "\t", "\n", "\r", " ", "(", ")", "-",
     "0", "1", "2", "3", "4", "5", "6", "7", "8", "9",
     "A", "B", "a", "b", "g", "n",
     "U+B77C", "U+B9C8", "U+B9DB", "U+BA74", "U+BC25", "U+C21C", "U+C694",
     "U+C9C4", "U+CC38", "U+CC39", "U+CE58", "U+CEF5", "U+CF00", "U+D55C" >>

Ord(c) == CHOOSE i \in 1..Len(CodeOrder) : CodeOrder[i] = c

\* re.IGNORECASE / case=False on the letters of the model.
Lower(c) == CASE c = "A" -> "a" [] c = "B" -> "b" [] OTHER -> c

LowerText(s) == [i \in 1..Len(s) |-> Lower(s[i])]

IsDigit(c) == c \in Digits

IsSpace(c) == c \in Whitespace

RECURSIVE LStrip(_)
LStrip(s) == IF s # <<>> /\ IsSpace(Head(s)) THEN LStrip(Tail(s)) ELSE s

RECURSIVE RStrip(_)
RStrip(s) ==
  IF s # <<>> /\ IsSpace(s[Len(s)]) THEN RStrip(SubSeq(s, 1, Len(s) - 1)) ELSE s

\* str.strip()
Strip(s) == RStrip(LStrip(s))

\* p in s (substring containment)
Contains(s, p) ==
  \E i \in 0..(Len(s) - Len(p)) : SubSeq(s, i + 1, i + Len(p)) = p

\* s < t for Python str (code point order, shorter prefix first)
RECURSIVE TextLess(_, _)
TextLess(s, t) ==
  IF t = <<>> THEN FALSE
  ELSE IF s = <<>> THEN TRUE
  ELSE IF Head(s) = Head(t) THEN TextLess(Tail(s), Tail(t))
  ELSE Ord(Head(s)) < Ord(Head(t))

\* ------------------------------------------------------------------------
\* Missing values (NaN / None of pandas)
\* ------------------------------------------------------------------------
NaText == << "NaN" >>

NaNum == -1

NaStorage == "NaN"

isnaText(x) == x = NaText

isnaNum(x) == x = NaNum

\* Series.astype(str) on a text column
astype_str(x) == IF isnaText(x) THEN << "n", "a", "n" >> ELSE x

\* Series.astype(str) on the storage column
astype_str_storage(x) == IF x = NaStorage THEN "nan" ELSE x

\* Series.fillna(v) on a numeric column
fillna(x, v) == IF isnaNum(x) THEN v ELSE x

\* ------------------------------------------------------------------------
\* normalize_columns
\* ------------------------------------------------------------------------
digits_only(x) ==
  LET s == IF isnaText(x) THEN <<>> ELSE x
  IN  SelectSeq(s, IsDigit)

REQUIRED_COLS == {"barcode", "name", "qty", "price"}

\* raw: [cols : set of column names, rows : sequence of raw rows].  A raw row
\* has every field; a field of a column that is missing holds the missing
\* value.  The DataFrame index (idx) is the row's position.
normalize_columns(raw) ==
  [ cols |-> raw.cols \cup REQUIRED_COLS \cup {"norm_barcode"},
    rows |-> [ i \in 1..Len(raw.rows) |->
                 [ idx          |-> i,
                   barcode      |-> raw.rows[i].barcode,
                   name         |-> raw.rows[i].name,
                   qty          |-> raw.rows[i].qty,
                   price        |-> raw.rows[i].price,
                   storage      |-> raw.rows[i].storage,
                   norm_barcode |-> digits_only(raw.rows[i].barcode) ] ] ]

RawRow(b, n, q, p, s) ==
  [ barcode |-> b, name |-> n, qty |-> q, price |-> p, storage |-> s ]

\* The built-in sample of load_data (file is None).
SampleData ==
  [ cols |-> {"barcode", "name", "qty", "price", "expiry", "storage"},
    rows |->
      << RawRow(<< "8","8","0","1","2","3","4","5","6","7","8","9","0" >>,
                << "U+C9C4", "U+B77C", "U+BA74", "(", "U+C21C", "U+D55C",
                   "U+B9DB", ")", " ", "1", "2", "0", "g" >>,
                40, 450, "U+C2E4U+C628"),
         RawRow(<< "8","8","0","9","8","7","6","5","4","3","2","1","0" >>,
                << "U+CC38", "U+CE58", "U+B9C8", "U+C694", "U+CEF5", "U+BC25",
                   " ", "2", "5", "0", "g" >>,
                12, 1450, "U+C2E4U+C628"),
         RawRow(<< "8","8","0","1","1","2","2","3","3","4","4","5","5" >>,
                << "U+CF00", "U+CC39", " ", "5", "0", "0", "g" >>,
                20, 2200, "U+C2E4U+C628") >> ]

EmptyFrame == [ cols |-> REQUIRED_COLS, rows |-> <<>> ]

NoFile == [ kind |-> "none" ]

\* f.kind: "none" (no upload), "table" (a readable .csv/.xls/.xlsx with
\* content f.data), "unsupported" (other extension), "broken" (the reader
\* raises).
load_data(f) ==
  CASE f.kind = "none"        -> normalize_columns(SampleData)
    [] f.kind = "table"       -> normalize_columns(f.data)
    [] f.kind = "unsupported" -> EmptyFrame
    [] f.kind = "broken"      -> EmptyFrame

\* DataFrame.empty
empty(frame) == frame.rows = <<>>

\* ------------------------------------------------------------------------
\* validate_input
\* ------------------------------------------------------------------------
None == "None"

ErrBarcodeEmpty == "ERR_BARCODE_EMPTY"

ErrBarcodeChars == "ERR_BARCODE_CHARS"

ErrNameShort == "ERR_NAME_SHORT"

\* re.fullmatch(r"[0-9\-\s]+", text)
fullmatch_barcode(text) ==
  /\ Len(text) >= 1
  /\ \A i \in 1..Len(text) :
       IsDigit(text[i]) \/ text[i] = "-" \/ IsSpace(text[i])

\* re.match in place of re.fullmatch: only the first character is checked
validate_input_match(text, m) ==
  IF m = "barcode"
  THEN IF text = <<>> THEN ErrBarcodeEmpty
       ELSE IF ~ fullmatch_barcode(<< Head(text) >>) THEN ErrBarcodeChars
       ELSE None
  ELSE IF text = <<>> \/ Len(Strip(text)) < MinNameLen THEN ErrNameShort
       ELSE None

validate_input(text, m) ==
  IF m = "barcode"
  THEN IF text = <<>> THEN ErrBarcodeEmpty
       ELSE IF ~ fullmatch_barcode(text) THEN ErrBarcodeChars
       ELSE None
  ELSE IF text = <<>> \/ Len(Strip(text)) < MinNameLen THEN ErrNameShort
       ELSE None

\* ------------------------------------------------------------------------
\* apply_filters
\* ------------------------------------------------------------------------
InRange(x, range) == fillna(x, 0) >= range[1] /\ fillna(x, 0) <= range[2]

\* the range tests without fillna(0): a comparison with NaN is False
apply_filters_nofill(frame, storage_options, price_range, qty_range) ==
  LET KeepStorage(r) == astype_str_storage(r.storage) \in storage_options
      KeepPrice(r) == ~ isnaNum(r.price) /\ InRange(r.price, price_range)
      KeepQty(r) == ~ isnaNum(r.qty) /\ InRange(r.qty, qty_range)
      out1 == IF storage_options # {} /\ "storage" \in frame.cols
              THEN SelectSeq(frame.rows, KeepStorage) ELSE frame.rows
      out2 == IF "price" \in frame.cols
              THEN SelectSeq(out1, KeepPrice) ELSE out1
      out3 == IF "qty" \in frame.cols
              THEN SelectSeq(out2, KeepQty) ELSE out2
  IN  [ cols |-> frame.cols, rows |-> out3 ]

apply_filters(frame, storage_options, price_range, qty_range) ==
  LET KeepStorage(r) == astype_str_storage(r.storage) \in storage_options
      KeepPrice(r) == InRange(r.price, price_range)
      KeepQty(r) == InRange(r.qty, qty_range)
      out1 == IF storage_options # {} /\ "storage" \in frame.cols
              THEN SelectSeq(frame.rows, KeepStorage) ELSE frame.rows
      out2 == IF "price" \in frame.cols
              THEN SelectSeq(out1, KeepPrice) ELSE out1
      out3 == IF "qty" \in frame.cols
              THEN SelectSeq(out2, KeepQty) ELSE out2
  IN  [ cols |-> frame.cols, rows |-> out3 ]

\* ------------------------------------------------------------------------
\* search
\* ------------------------------------------------------------------------
search(frame, text, m) ==
  IF m = "barcode"
  THEN LET target == SelectSeq(text, IsDigit)
           Hit(r) == r.norm_barcode = target
       IN  [ cols |-> frame.cols, rows |-> SelectSeq(frame.rows, Hit) ]
  ELSE LET pat == Strip(text)
           Hit(r) == Contains(LowerText(astype_str(r.name)), LowerText(pat))
       IN  [ cols |-> frame.cols, rows |-> SelectSeq(frame.rows, Hit) ]

\* ------------------------------------------------------------------------
\* sort_df
\* ------------------------------------------------------------------------
SortKeys == {"price_desc", "price_asc", "name_asc", "qty_desc", "qty_asc"}

\* mapping of sort_df: sort key -> (column, ascending)
SortMapping ==
  [ price_asc  |-> << "price", TRUE >>,
    price_desc |-> << "price", FALSE >>,
    name_asc   |-> << "name", TRUE >>,
    qty_asc    |-> << "qty", TRUE >>,
    qty_desc   |-> << "qty", FALSE >> ]

Cell(r, col) ==
  CASE col = "price" -> r.price [] col = "qty" -> r.qty [] col = "name" -> r.name

CellIsNa(r, col) ==
  IF col = "name" THEN isnaText(r.name) ELSE isnaNum(Cell(r, col))

\* a sorts strictly before b on column col
Before(a, b, col, asc) ==
  LET lt(x, y) == IF col = "name" THEN TextLess(x, y) ELSE x < y
  IN  IF asc THEN lt(Cell(a, col), Cell(b, col))
             ELSE lt(Cell(b, col), Cell(a, col))

\* Stable insertion: r goes before the first row that sorts strictly after it.
InsertStable(sorted, r, col, asc) ==
  LET later == { i \in 1..Len(sorted) : Before(r, sorted[i], col, asc) }
      pos == IF later = {} THEN Len(sorted) + 1
             ELSE CHOOSE i \in later : \A j \in later : i <= j
  IN  SubSeq(sorted, 1, pos - 1) \o << r >> \o SubSeq(sorted, pos, Len(sorted))

RECURSIVE StableSort(_, _, _, _)
StableSort(rows, n, col, asc) ==
  IF n = 0 THEN <<>>
  ELSE InsertStable(StableSort(rows, n - 1, col, asc), rows[n], col, asc)

\* DataFrame.sort_values(col, ascending=asc, kind="mergesort"): stable,
\* missing values last.
sort_values(rows, col, asc) ==
  LET HasValue(r) == ~ CellIsNa(r, col)
      Missing(r) == CellIsNa(r, col)
      present == SelectSeq(rows, HasValue)
  IN  StableSort(present, Len(present), col, asc) \o SelectSeq(rows, Missing)

sort_df(frame, key) ==
  IF key \in DOMAIN SortMapping /\ SortMapping[key][1] \in frame.cols
  THEN [ cols |-> frame.cols,
         rows |-> sort_values(frame.rows, SortMapping[key][1], SortMapping[key][2]) ]
  ELSE frame

\* ------------------------------------------------------------------------
\* record_history
\* ------------------------------------------------------------------------
Min(a, b) == IF a <= b THEN a ELSE b

\* without the truncation
record_history_unbounded(hist, item) == << item >> \o hist

\* hist[-20:] in place of hist[:20]
record_history_keep_tail(hist, item) ==
  LET inserted == << item >> \o hist
  IN  SubSeq(inserted, Len(inserted) - Min(HistoryCap, Len(inserted)) + 1,
             Len(inserted))

record_history(hist, item) ==
  LET inserted == << item >> \o hist
  IN  SubSeq(inserted, 1, Min(HistoryCap, Len(inserted)))

\* datetime.now().strftime("%H:%M"), t in minutes
strftime(t) == << (t \div 60) % 24, t % 60 >>

\* ------------------------------------------------------------------------
\* Session state
\* ------------------------------------------------------------------------
VARIABLES
  file,         \* the file uploader's value
  mode,         \* st.session_state["mode"]
  query,        \* st.session_state["query"]
  rehit,        \* st.session_state["rehit"]: "absent", "true" or "false"
  history,      \* st.session_state["history"], newest first
  flt_storage,  \* st.session_state["flt_storage"]
  flt_price,    \* st.session_state["flt_price"]
  flt_qty,      \* st.session_state["flt_qty"]
  sort_key,     \* st.session_state["sort_key"]
  now,          \* wall clock, in minutes
  last,         \* what the last script run did and rendered
  recorded      \* every item passed to record_history, oldest first

vars ==
  << file, mode, query, rehit, history, flt_storage, flt_price, flt_qty,
     sort_key, now, last, recorded >>

\* df = load_data(file), recomputed by every script run
df == load_data(file)

\* ------------------------------------------------------------------------
\* Widgets of the filter expander
\* ------------------------------------------------------------------------
PresentValues(frame, col) ==
  { Cell(frame.rows[i], col) : i \in { j \in 1..Len(frame.rows) :
                                        ~ CellIsNa(frame.rows[j], col) } }

SetMin(S) == CHOOSE x \in S : \A y \in S : x <= y

SetMax(S) == CHOOSE x \in S : \A y \in S : x >= y

\* (min, max) of a numeric column, (0, 0) when it holds no value
ColumnRange(frame, col) ==
  IF col \in frame.cols /\ PresentValues(frame, col) # {}
  THEN << SetMin(PresentValues(frame, col)), SetMax(PresentValues(frame, col)) >>
  ELSE << 0, 0 >>

\* options of the storage multiselect
storage_vals(frame) ==
  IF "storage" \in frame.cols
  THEN { frame.rows[i].storage : i \in 1..Len(frame.rows) } \ {NaStorage}
  ELSE {}

\* values a slider can be set to: lo <= hi inside the column's range; the
\* model moves a handle only onto an end of the range
SliderValues(frame, col) ==
  LET stops == { ColumnRange(frame, col)[1], ColumnRange(frame, col)[2] }
  IN  { << lo, hi >> : lo \in stops, hi \in stops } \cap
        { p \in stops \X stops : p[1] <= p[2] }

\* ------------------------------------------------------------------------
\* The script run
\* ------------------------------------------------------------------------
\* st.session_state.pop("rehit", False): the value read and what is left
\* get in place of pop: the flag stays in the session
pop_rehit_get(rh) ==
  [ value |-> (rh = "true"), left |-> rh ]

pop_rehit(rh) ==
  [ value |-> (rh = "true"), left |-> "absent" ]

\* the condition of the Execute Search block
should_search(do_search, rh, frame) == (do_search \/ rh) /\ ~ empty(frame)

\* the dict passed to record_history
\* len(hits.columns) in place of len(hits)
history_item_columns(t, m, q, hits) ==
  [ time |-> strftime(t), mode |-> m, query |-> q,
    count |-> Cardinality(hits.cols) ]

history_item(t, m, q, hits) ==
  [ time |-> strftime(t), mode |-> m, query |-> q, count |-> Len(hits.rows) ]

NoResult == <<>>

\* One run of the script from the widgets on: f, m, q, rh, fs, fp, fq, sk are
\* the uploader's value and the session values once the widget events and the
\* button callbacks of this run have been applied; op names the event that
\* started the run and n is the number of the history entry whose button was
\* pressed (0: none).
Run(op, n, do_search, f, m, q, rh, fs, fp, fq, sk) ==
  LET frame == load_data(f)
      popped == pop_rehit(rh)
      go == should_search(do_search, popped.value, frame)
      error == IF go THEN validate_input(q, m) ELSE None
      exec == go /\ error = None
      base == apply_filters(frame, fs, fp, fq)
      hits == sort_df(search(base, q, m), sk)
      item == history_item(now, m, q, hits)
  IN  /\ file' = f
      /\ mode' = m
      /\ query' = q
      /\ rehit' = popped.left
      /\ flt_storage' = fs
      /\ flt_price' = fp
      /\ flt_qty' = fq
      /\ sort_key' = sk
      /\ history' = IF exec THEN record_history(history, item) ELSE history
      /\ recorded' = IF exec THEN Append(recorded, item) ELSE recorded
      /\ last' = [ op       |-> op,
                   entry    |-> n,
                   searched |-> exec,
                   error    |-> error,
                   base     |-> IF exec THEN base.rows ELSE NoResult,
                   hits     |-> IF exec THEN hits.rows ELSE NoResult ]
      /\ UNCHANGED now

\* the "검색" button
SearchPress(maxrec) ==
  /\ Len(recorded) < maxrec
  /\ Run("search", 0, TRUE, file, mode, query, rehit,
         flt_storage, flt_price, flt_qty, sort_key)

\* the "초기화" button: clears the query, sets rehit False and reruns the
\* script; the rerun pops rehit and searches nothing
ResetPress ==
  Run("reset", 0, FALSE, file, mode, <<>>, "false",
      flt_storage, flt_price, flt_qty, sort_key)

\* the button sets the query but leaves the mode as it is
RehitPress_keep_mode(maxrec, buttons) ==
  /\ Len(recorded) < maxrec
  /\ \E i \in buttons \cap (1..Len(history)) :
       Run("rehit", i, FALSE, file, mode, history[i].query, "true",
           flt_storage, flt_price, flt_qty, sort_key)

\* a "다시 검색" button of history_buttons, one of those numbered in buttons
RehitPress(maxrec, buttons) ==
  /\ Len(recorded) < maxrec
  /\ \E i \in buttons \cap (1..Len(history)) :
       Run("rehit", i, FALSE, file, history[i].mode, history[i].query, "true",
           flt_storage, flt_price, flt_qty, sort_key)

\* the text input
EditQuery(QS) ==
  \E q \in QS :
    /\ q # query
    /\ Run("edit", 0, FALSE, file, mode, q, rehit,
           flt_storage, flt_price, flt_qty, sort_key)

\* the mode radio
EditMode ==
  \E m \in {"barcode", "name"} :
    /\ m # mode
    /\ Run("edit", 0, FALSE, file, m, query, rehit,
           flt_storage, flt_price, flt_qty, sort_key)

\* the storage multiselect of the filter expander
EditStorage ==
  \E fs \in SUBSET storage_vals(df) :
    /\ fs # flt_storage
    /\ Run("edit", 0, FALSE, file, mode, query, rehit,
           fs, flt_price, flt_qty, sort_key)

\* the price slider
EditPrice ==
  \E fp \in SliderValues(df, "price") :
    /\ fp # flt_price
    /\ Run("edit", 0, FALSE, file, mode, query, rehit,
           flt_storage, fp, flt_qty, sort_key)

\* the quantity slider
EditQty ==
  \E fq \in SliderValues(df, "qty") :
    /\ fq # flt_qty
    /\ Run("edit", 0, FALSE, file, mode, query, rehit,
           flt_storage, flt_price, fq, sort_key)

\* the sort selectbox
EditSort ==
  \E sk \in SortKeys :
    /\ sk # sort_key
    /\ Run("edit", 0, FALSE, file, mode, query, rehit,
           flt_storage, flt_price, flt_qty, sk)

\* the file uploader: the filter widgets are rebuilt for the new data
Upload(FS) ==
  \E f \in FS :
    /\ f # file
    /\ Run("upload", 0, FALSE, f, mode, query, rehit,
           {}, ColumnRange(load_data(f), "price"),
           ColumnRange(load_data(f), "qty"), sort_key)

StartMinute == 23 * 60 + 59

\* a minute passes
Tick ==
  /\ now < StartMinute + MaxTicks
  /\ now' = now + 1
  /\ UNCHANGED << file, mode, query, rehit, history, flt_storage, flt_price,
                  flt_qty, sort_key, last, recorded >>

NoRun ==
  [ op |-> "start", entry |-> 0, searched |-> FALSE, error |-> None,
    base |-> NoResult, hits |-> NoResult ]

\* the session after the first script run, no file uploaded
Init ==
  /\ file = NoFile
  /\ mode = "barcode"
  /\ query = <<>>
  /\ rehit = "absent"
  /\ history = <<>>
  /\ flt_storage = {}
  /\ flt_price = ColumnRange(load_data(NoFile), "price")
  /\ flt_qty = ColumnRange(load_data(NoFile), "qty")
  /\ sort_key = "price_desc"
  /\ now = StartMinute
  /\ last = NoRun
  /\ recorded = <<>>

\* ------------------------------------------------------------------------
\* Inputs
\* ------------------------------------------------------------------------
QueryChars == {"1", "-", " ", "a", "A"}

Texts(n) == UNION { [1..k -> QueryChars] : k \in 0..n }

\* an uploaded table: exact and partial barcodes, a barcode without digits,
\* a missing barcode, names differing in case and spacing, missing numbers
MainTable ==
  [ kind |-> "table",
    data |->
      [ cols |-> {"barcode", "name", "qty", "price", "storage"},
        rows |->
          << RawRow(<< "1" >>, << "a", " ", " ", "a" >>, 1, 0, "cold"),
             RawRow(<< "1", "-", "1" >>, << "A", "a" >>, 2, NaNum, "room"),
             RawRow(NaText, << "a", " ", "A" >>, NaNum, 1, NaStorage),
             RawRow(<< "1", "1" >>, NaText, 2, 1, "room") >> ] ]

\* an uploaded table without the storage column and without numbers
PlainTable ==
  [ kind |-> "table",
    data |->
      [ cols |-> {"barcode", "name"},
        rows |->
          << RawRow(<< "-" >>, << "a", "a" >>, NaNum, NaNum, NaStorage),
             RawRow(<< "1", " ", "1" >>, << "A", " ", "a" >>, NaNum, NaNum,
                    NaStorage) >> ] ]

Unsupported == [ kind |-> "unsupported" ]

Broken == [ kind |-> "broken" ]

\* ------------------------------------------------------------------------
\* Spec: a session of the page
\* ------------------------------------------------------------------------
SessionQueries == { <<>>, << "1" >>, << "0", "g" >> }

SessionFiles == { NoFile, Unsupported }

Next ==
  \/ SearchPress(MaxRecords)
  \/ ResetPress
  \/ RehitPress(MaxRecords, 1..HistoryCap)
  \/ EditQuery(SessionQueries)
  \/ EditMode
  \/ EditStorage
  \/ EditPrice
  \/ EditQty
  \/ EditSort
  \/ Upload(SessionFiles)

Spec == Init /\ [][Next]_vars

\* ------------------------------------------------------------------------
\* SpecFn: one press of the search button on every input
\* ------------------------------------------------------------------------
MaxFnSearches == 1

FnFiles == { MainTable, PlainTable, Unsupported, Broken }

InitFn ==
  /\ file \in FnFiles
  /\ mode \in {"barcode", "name"}
  /\ query \in Texts(MaxQueryLen)
  /\ rehit = "absent"
  /\ history = <<>>
  /\ flt_storage \in SUBSET storage_vals(load_data(file))
  /\ flt_price \in SliderValues(load_data(file), "price")
  /\ flt_qty \in SliderValues(load_data(file), "qty")
  /\ sort_key \in SortKeys
  /\ now = StartMinute
  /\ last = NoRun
  /\ recorded = <<>>

NextFn == SearchPress(MaxFnSearches)

SpecFn == InitFn /\ [][NextFn]_vars

\* ------------------------------------------------------------------------
\* SpecLedger: a long session on the sample, enough records to fill the
\* history and evict from it; of the repeat buttons the newest entry's and the
\* oldest entry's are pressed
\* ------------------------------------------------------------------------
LedgerQueries == { << "1" >>, << "a" >> }

NextLedger ==
  \/ SearchPress(MaxLedgerRecords)
  \/ ResetPress
  \/ RehitPress(MaxLedgerRecords, {1, Len(history)})
  \/ EditQuery(LedgerQueries)
  \/ Tick

SpecLedger == Init /\ [][NextLedger]_vars

\* ------------------------------------------------------------------------
\* Properties
\* ------------------------------------------------------------------------
Rows(seq) == { seq[i] : i \in 1..Len(seq) }

\* the n newest elements of a log kept oldest first, newest first
NewestFirst(log, n) == [ i \in 1..n |-> log[Len(log) + 1 - i] ]

\* the history after one more record: the new entry, then the old entries in
\* their order, as many as the capacity leaves room for
ShiftedBy(new, old) ==
  /\ Len(new) = Min(Len(old) + 1, HistoryCap)
  /\ \A j \in 2..Len(new) : new[j] = old[j - 1]

\* C1: in every reachable state, whatever searches, repeat requests, resets
\* and rejected queries came before, the history holds at most 20 entries.
HistoryBounded == Len(history) <= HistoryCap

HistoryFullAfterEviction ==
  /\ Len(history) = HistoryCap
  /\ Len(recorded) > HistoryCap
  /\ last.op \in {"reset", "edit"}

\* C2: after n records the history is the last min(n, 20) recorded items,
\* newest first; a record made on a full history puts the new item in front
\* and drops the oldest one, so that the oldest entry left is the one that was
\* second oldest before.
RecordFifo ==
  /\ [](history = NewestFirst(recorded, Min(Len(recorded), HistoryCap)))
  /\ [][ (Len(history) = HistoryCap /\ recorded' # recorded) =>
           /\ Len(history') = HistoryCap
           /\ history'[1] = recorded'[Len(recorded')]
           /\ history'[HistoryCap] = history[HistoryCap - 1]
           /\ \A j \in 2..HistoryCap : history'[j] = history[j - 1] ]_vars

OldestEvicted ==
  /\ Len(recorded) = HistoryCap + 1
  /\ recorded[1] # recorded[2]
  /\ history[HistoryCap] = recorded[2]

\* a search was asked for in the run that led to the state
Asked(l) == l.op \in {"search", "rehit"}

\* C3: a run that executes a query (asked for, valid, on a catalog that is not
\* empty) adds exactly one entry, in front, with the mode and the text of the
\* query and the number of rows of the result of that search; a run that
\* executes no query leaves the history as it was.
ExecutedQueryRecordedOnce ==
  [][ /\ last'.searched <=>
           (Asked(last') /\ ~ empty(df') /\ validate_input(query', mode') = None)
      /\ last'.searched =>
           /\ ShiftedBy(history', history)
           /\ Len(recorded') = Len(recorded) + 1
           /\ history'[1].mode = mode'
           /\ history'[1].query = query'
           /\ history'[1].count = Len(last'.hits)
      /\ ~ last'.searched => (history' = history /\ recorded' = recorded) ]_vars

SearchRecorded ==
  /\ last.searched
  /\ Len(history) >= 2
  /\ history[1].count > 0
  /\ history[1].count # history[2].count

Malformed(q, m) ==
  IF m = "barcode"
  THEN \E i \in 1..Len(q) : q[i] \notin (Digits \cup {"-"} \cup Whitespace)
  ELSE Len(Strip(q)) < MinNameLen

BarcodeExactThenSubstring ==
  (last.searched /\ mode = "barcode" /\ digits_only(query) # <<>>) =>
    LET q == digits_only(query)
        exact == { r \in Rows(last.base) : r.norm_barcode = q }
        partial == { r \in Rows(last.base) : Contains(r.norm_barcode, q) }
    IN  Rows(last.hits) = IF exact # {} THEN exact ELSE partial

\* C7 as stated: a barcode query without a digit gets no error and no row.
DigitlessBarcodeQueryIsEmpty ==
  (last.op = "search" /\ mode = "barcode" /\ digits_only(query) = <<>>) =>
    (last.error = None /\ last.hits = <<>>)

\* whitespace runs collapsed to one space, ends trimmed, case folded
RECURSIVE Collapse(_)
Collapse(s) ==
  IF s = <<>> THEN <<>>
  ELSE IF IsSpace(Head(s))
       THEN << " " >> \o Collapse(LStrip(s))
       ELSE << Head(s) >> \o Collapse(Tail(s))

normalizeName(x) ==
  IF isnaText(x) THEN <<>> ELSE LowerText(Strip(Collapse(x)))

\* C8 as stated: a name search returns the rows whose normalized name
\* contains the normalized query.
NameSearchNormalized ==
  (last.searched /\ mode = "name") =>
    Rows(last.hits) =
      { r \in Rows(last.base) :
          Contains(normalizeName(r.name), normalizeName(query)) }

RehitConsumed ==
  /\ [](rehit = "absent")
  /\ [][ /\ Len(recorded') <= Len(recorded) + 1
         /\ ~ Asked(last') =>
              (~ last'.searched /\ history' = history) ]_vars

RepeatOnEmptyCatalog ==
  /\ last.op = "rehit"
  /\ ~ last.searched
  /\ empty(df)
  /\ rehit = "absent"

====
